---------------------------- MODULE Spec2Model ----------------------------
(***************************************************************************)
(* Model of Fire2012WithPalette.ino (aughey/lumiere): the debounced Button *)
(* state machine, the FireSim heat automaton, and the fixed-rate control   *)
(* loop (brightness ramp, palette selection, wake-up deadline).            *)
(*                                                                         *)
(* Every loop() iteration runs the same statement groups in order.  The    *)
(* groups touch disjoint variables (buttons+brightness+fire_on, the select *)
(* button+palette, the heat arrays, the clock), so each specification      *)
(* below drives one group and leaves the variables of the others alone.    *)
(***************************************************************************)
EXTENDS Integers, Sequences, FiniteSets, TLC

(***************************************************************************)
(* Program constants                                                       *)
(***************************************************************************)
FRAMES_PER_SECOND == 30

NUM_PALLETS == 4

MAX_BRIGHTNESS == 255

BRIGHTNESS == 200

COOLING == 55

SPARKING == 80

HEAT_CELL_MULTIPLIER == 2

NUM_LEDS == 12

\* the size of the heat array in the sketch; it sets the cooling range
HEAT_CELLS == NUM_LEDS * HEAT_CELL_MULTIPLIER

\* random8(0, COOL_LIMIT) is the cooling draw: [0, 24)
COOL_LIMIT == ((COOLING * 10) \div HEAT_CELLS) + 2

\* random8(SPARK_MIN, SPARK_LIMIT) is the spark draw: [160, 255)
SPARK_MIN == 160

SPARK_LIMIT == 255

\* random8(SPARK_CELLS) is the cell a spark lands in
SPARK_CELLS == 3

\* setup(): delay(100)
SETUP_DELAY == 100

\* 1000 / FRAMES_PER_SECOND, the frame period in ms
FramePeriod == 1000 \div FRAMES_PER_SECOND

\* modulus of unsigned long arithmetic.  The type is 32 bits wide on the
\* AVR; TLC's integers are 32-bit signed, so the modulus used is 2^30.  The
\* clock values of a run stay far below it: only differences wrap.
ULONG == 2 ^ 30

\* the two debounce thresholds every Button of the sketch uses besides
\* FRAMES_PER_SECOND*2: Button(6, 2, 2), Button(7, .., 2), Button(8, .., 2)
DEBOUNCE_FRAMES == 2

TOP_PIN == 6

SIDE_TOP_PIN == 7

SIDE_BOTTOM_PIN == 8

\* digitalRead() levels; INPUT_PULLUP makes a pressed button read 0
LOW == 0

HIGH == 1

(***************************************************************************)
(* Bounds of the model                                                     *)
(***************************************************************************)
\* cap of the ghost counter of consecutive "down" readings, counted above
\* the press threshold of the button
RunSlack == 3

\* press threshold given to the two side buttons in SpecLoop.  The sketch
\* passes FRAMES_PER_SECOND*2 (60 frames); loop() reads the buttons only
\* through clicked() and isPressed(), so the countdown is shortened here.
HoldFrames == 2

\* most clicks of the select button counted in SpecPalette
MaxClicks == 16

\* LEDs of the strip simulated in SpecFire and SpecDie (NUM_LEDS in the
\* sketch); the simulated heat array has SimLeds * HEAT_CELL_MULTIPLIER cells
SimLeds == 2

\* most update() calls in a run of SpecFire
MaxUpdates == 3

\* update() calls without a spark that precede the runs of SpecDie
Warmup == 5

\* most loop() iterations in a run of SpecSched
MaxIter == 6

\* longest time (ms) the work of one iteration takes in SpecSched
MaxWork == 36

\* longest time (ms) setup() takes beyond its delay(100), and longest time
\* FastLED.delay() returns late
MaxLag == 1

VARIABLES
    button,      \* SpecButton: the Button object under test
    b_prev,      \* ghost: the Button object before the last tick()
    b_level,     \* ghost: the level digitalRead() returned in the last tick()
    b_ticked,    \* ghost: tick() has been called at least once
    b_run,       \* ghost: consecutive "down" ticks since Released-stable
    b_runclicks, \* ghost: ticks of the current run after which clicked()
    b_ended,     \* ghost: length of the run the last ("up") tick ended
    b_uprun,     \* ghost: consecutive "up" ticks up to the last tick
    b_since,     \* ghost: what happened since the last tick with clicked()
    b_gap,       \* ghost: b_since as it was before a tick with clicked()
    side_top_button,      \* SpecLoop: the "increase" button
    side_bottom_button,   \* SpecLoop: the "decrease" button
    brightness,           \* SpecLoop: FastLED's brightness (uint8_t)
    brightness_direction, \* SpecLoop: the global brightness_direction
    sim1_on,              \* SpecLoop: sim1.fire_on
    sim2_on,              \* SpecLoop: sim2.fire_on
    was_brightness,       \* ghost: brightness before the last iteration
    step_direction,       \* ghost: brightness_direction as line 321 read it
    top_button,           \* SpecPalette: the palette-select button
    selected_pallet,      \* SpecPalette: the global selected_pallet
    gPal,                 \* SpecPalette: the active palette
    n_clicks,             \* ghost: iterations in which top_button.clicked()
    was_pallet,           \* ghost: selected_pallet before the last iteration
    heat,                 \* SpecFire: FireSim::heat
    fire_on,              \* SpecFire: FireSim::fire_on
    n_updates,            \* ghost: update() calls so far (SpecFire)
    u_tock,               \* ghost: parity of the update() calls
    u_pre,                \* ghost: heat before the last update()
    u_cool,               \* ghost: the cooling draws of the last update()
    u_cooled,             \* ghost: heat after step 1 of the last update()
    u_wide,               \* ghost: the int values step 2 computed
    u_diffused,           \* ghost: heat after step 2 of the last update()
    u_spark,              \* ghost: the spark of the last update()
    now,                  \* SpecSched: the value millis() returns
    nextwake,             \* SpecSched: the global nextwake
    s_pc,                 \* SpecSched: "work" or "sleep", the place in loop()
    n_iter,               \* ghost: completed loop() iterations
    wake0,                \* ghost: nextwake as setup() left it
    s_tosleep,            \* ghost: the argument of the last FastLED.delay()
    s_late,               \* ghost: some iteration ended its work past nextwake
    gReverseDirection,    \* SpecRender: the global gReverseDirection
    leds,                 \* SpecRender: the pixel buffer copyToLEDs() fills
    led_written           \* ghost: the pixels the last copyToLEDs() wrote

buttonVars == <<button, b_prev, b_level, b_ticked, b_run, b_runclicks,
                b_ended, b_uprun, b_since, b_gap>>

loopVars == <<side_top_button, side_bottom_button, brightness,
              brightness_direction, sim1_on, sim2_on, was_brightness,
              step_direction>>

paletteVars == <<top_button, selected_pallet, gPal, n_clicks, was_pallet>>

fireVars == <<heat, fire_on, n_updates, u_tock, u_pre, u_cool, u_cooled,
              u_wide, u_diffused, u_spark>>

schedVars == <<now, nextwake, s_pc, n_iter, wake0, s_tosleep, s_late>>

renderVars == <<gReverseDirection, leds, led_written>>

vars == <<buttonVars, loopVars, paletteVars, fireVars, schedVars, renderVars>>

Min(a, b) == IF a < b THEN a ELSE b

Max(a, b) == IF a > b THEN a ELSE b

(***************************************************************************)
(* class Button                                                            *)
(***************************************************************************)
\* Button::Button(pin, frames_on, frames_off)
Button(pin, frames_on, frames_off) ==
    [m_pin |-> pin, m_frames_on |-> frames_on, m_frames_off |-> frames_off,
     m_frames |-> -1, m_down |-> FALSE]

\* mutant of clicked: the test on m_down is dropped
clicked_anylevel(b) == b.m_frames = b.m_frames_on

\* mutant of clicked: true during the whole countdown
clicked_counting(b) == b.m_down = FALSE /\ b.m_frames >= 0

\* Button::clicked()
clicked(b) == b.m_down = FALSE /\ b.m_frames = b.m_frames_on

\* Button::isPressed()
isPressed(b) == b.m_down

\* mutant of tick: the branch that starts the press countdown is missing, so
\* the first "down" reading confirms the press
tick_hasty(b, level) ==
    IF level = LOW
    THEN IF b.m_down THEN [b EXCEPT !.m_frames = -1]
         ELSE IF b.m_frames > 0 THEN [b EXCEPT !.m_frames = b.m_frames - 1]
         ELSE [b EXCEPT !.m_down = TRUE, !.m_frames = -1]
    ELSE IF b.m_down = FALSE THEN [b EXCEPT !.m_frames = -1]
         ELSE IF b.m_frames < 0 THEN [b EXCEPT !.m_frames = b.m_frames_off]
         ELSE IF b.m_frames > 0 THEN [b EXCEPT !.m_frames = b.m_frames - 1]
         ELSE [b EXCEPT !.m_down = FALSE, !.m_frames = -1]

\* mutant of tick: an "up" reading during the press countdown does not
\* abort it
tick_noabort(b, level) ==
    IF level = LOW
    THEN IF b.m_down THEN [b EXCEPT !.m_frames = -1]
         ELSE IF b.m_frames < 0 THEN [b EXCEPT !.m_frames = b.m_frames_on]
         ELSE IF b.m_frames > 0 THEN [b EXCEPT !.m_frames = b.m_frames - 1]
         ELSE [b EXCEPT !.m_down = TRUE, !.m_frames = -1]
    ELSE IF b.m_down = FALSE THEN b
         ELSE IF b.m_frames < 0 THEN [b EXCEPT !.m_frames = b.m_frames_off]
         ELSE IF b.m_frames > 0 THEN [b EXCEPT !.m_frames = b.m_frames - 1]
         ELSE [b EXCEPT !.m_down = FALSE, !.m_frames = -1]

\* mutant of tick: the first "up" reading of a pressed button releases it
tick_quickrelease(b, level) ==
    IF level = LOW
    THEN IF b.m_down THEN [b EXCEPT !.m_frames = -1]
         ELSE IF b.m_frames < 0 THEN [b EXCEPT !.m_frames = b.m_frames_on]
         ELSE IF b.m_frames > 0 THEN [b EXCEPT !.m_frames = b.m_frames - 1]
         ELSE [b EXCEPT !.m_down = TRUE, !.m_frames = -1]
    ELSE IF b.m_down = FALSE THEN [b EXCEPT !.m_frames = -1]
         ELSE [b EXCEPT !.m_down = FALSE, !.m_frames = -1]

\* Button::tick() with level the value digitalRead(m_pin) returns
tick(b, level) ==
    IF level = LOW
    THEN IF b.m_down THEN [b EXCEPT !.m_frames = -1]
         ELSE IF b.m_frames < 0 THEN [b EXCEPT !.m_frames = b.m_frames_on]
         ELSE IF b.m_frames > 0 THEN [b EXCEPT !.m_frames = b.m_frames - 1]
         ELSE [b EXCEPT !.m_down = TRUE, !.m_frames = -1]
    ELSE IF b.m_down = FALSE THEN [b EXCEPT !.m_frames = -1]
         ELSE IF b.m_frames < 0 THEN [b EXCEPT !.m_frames = b.m_frames_off]
         ELSE IF b.m_frames > 0 THEN [b EXCEPT !.m_frames = b.m_frames - 1]
         ELSE [b EXCEPT !.m_down = FALSE, !.m_frames = -1]

\* the three Button objects of the sketch
top_button_0 == Button(TOP_PIN, DEBOUNCE_FRAMES, DEBOUNCE_FRAMES)

side_top_button_0 == Button(SIDE_TOP_PIN, FRAMES_PER_SECOND * 2, DEBOUNCE_FRAMES)

side_bottom_button_0 == Button(SIDE_BOTTOM_PIN, FRAMES_PER_SECOND * 2, DEBOUNCE_FRAMES)

\* the four states of the debouncer
ReleasedStable(b) == b.m_down = FALSE /\ b.m_frames < 0

PressPending(b) == b.m_down = FALSE /\ b.m_frames >= 0

PressedStable(b) == b.m_down = TRUE /\ b.m_frames < 0

ReleasePending(b) == b.m_down = TRUE /\ b.m_frames >= 0

(***************************************************************************)
(* SpecButton: one Button of the sketch ticked with arbitrary pin levels   *)
(***************************************************************************)
NoClickYet == [click |-> FALSE, up |-> FALSE, rel |-> FALSE]

ButtonStart(b) ==
    /\ button = b
    /\ b_prev = button
    /\ b_level = HIGH
    /\ b_ticked = FALSE
    /\ b_run = 0
    /\ b_runclicks = 0
    /\ b_ended = 0
    /\ b_uprun = 0
    /\ b_since = NoClickYet
    /\ b_gap = NoClickYet

\* one call of button.tick() in which digitalRead() returns level
ButtonTick(level) ==
    LET nb == tick(button, level)
        run == IF level = LOW
               THEN IF ReleasedStable(button) THEN 1
                    ELSE IF b_run > 0
                         THEN Min(b_run + 1, button.m_frames_on + RunSlack)
                         ELSE 0
               ELSE 0
        confirmedRelease == button.m_down /\ ~nb.m_down
    IN  /\ button' = nb
        /\ b_prev' = button
        /\ b_level' = level
        /\ b_ticked' = TRUE
        /\ b_run' = run
        /\ b_runclicks' = IF run = 0 THEN 0
                          ELSE IF run = 1 THEN (IF clicked(nb) THEN 1 ELSE 0)
                          ELSE Min(b_runclicks + (IF clicked(nb) THEN 1 ELSE 0), 2)
        /\ b_ended' = IF level = HIGH THEN b_run ELSE 0
        /\ b_uprun' = IF level = HIGH
                      THEN Min(b_uprun + 1, button.m_frames_off + RunSlack)
                      ELSE 0
        /\ b_since' = IF clicked(nb)
                      THEN [click |-> TRUE, up |-> FALSE, rel |-> FALSE]
                      ELSE [click |-> b_since.click,
                            up |-> b_since.up \/ level = HIGH,
                            rel |-> b_since.rel \/ confirmedRelease]
        /\ b_gap' = IF clicked(nb) THEN b_since ELSE NoClickYet

(***************************************************************************)
(* loop(): buttons, simulation enable, brightness ramp (lines 294-335)     *)
(***************************************************************************)
\* FastLED.setBrightness(uint8_t): the int argument is narrowed to 8 bits
setBrightness(b) == b % 256

\* mutant of AfterClicks: the two tests are in the other order
AfterClicks_onlast(on, st, sb) ==
    LET a == IF clicked(sb) THEN FALSE ELSE on
    IN  IF clicked(st) THEN TRUE ELSE a

\* lines 298-306: the click of side_top turns the fire on, the click of
\* side_bottom turns it off (in this order)
AfterClicks(on, st, sb) ==
    LET a == IF clicked(st) THEN TRUE ELSE on
    IN  IF clicked(sb) THEN FALSE ELSE a

\* lines 308-320: direction and forced enable from the held buttons
\* (bright is FastLED.getBrightness() before the step)
HeldDirection(dir, bright, st, sb) ==
    IF isPressed(st) THEN 1
    ELSE IF isPressed(sb) THEN (IF bright # 0 THEN -1 ELSE dir)
    ELSE 0

HeldEnable(on, bright, st, sb) ==
    IF isPressed(st) THEN TRUE
    ELSE IF isPressed(sb) THEN (IF bright # 0 THEN TRUE ELSE on)
    ELSE on

\* mutant of StepBrightness: the upper clamp is missing
StepBrightness_noclamp(dir, bright) ==
    IF dir # 0
    THEN LET b == bright + dir
         IN  IF b <= 0
             THEN [brightness |-> setBrightness(0), direction |-> 0]
             ELSE [brightness |-> setBrightness(b), direction |-> dir]
    ELSE [brightness |-> bright, direction |-> dir]

\* mutant of StepBrightness: the clamps keep the direction
StepBrightness_noreset(dir, bright) ==
    IF dir # 0
    THEN LET b == bright + dir
         IN  IF b >= MAX_BRIGHTNESS
             THEN [brightness |-> setBrightness(MAX_BRIGHTNESS), direction |-> dir]
             ELSE IF b <= 0
             THEN [brightness |-> setBrightness(0), direction |-> dir]
             ELSE [brightness |-> setBrightness(b), direction |-> dir]
    ELSE [brightness |-> bright, direction |-> dir]

\* lines 321-335: the clamped brightness step
StepBrightness(dir, bright) ==
    IF dir # 0
    THEN LET b == bright + dir
         IN  IF b >= MAX_BRIGHTNESS
             THEN [brightness |-> setBrightness(MAX_BRIGHTNESS), direction |-> 0]
             ELSE IF b <= 0
             THEN [brightness |-> setBrightness(0), direction |-> 0]
             ELSE [brightness |-> setBrightness(b), direction |-> dir]
    ELSE [brightness |-> bright, direction |-> dir]

\* state after setup(): FastLED.setBrightness(BRIGHTNESS), both fires on
LoopStart ==
    /\ side_top_button = Button(SIDE_TOP_PIN, HoldFrames, DEBOUNCE_FRAMES)
    /\ side_bottom_button = Button(SIDE_BOTTOM_PIN, HoldFrames, DEBOUNCE_FRAMES)
    /\ brightness = setBrightness(BRIGHTNESS)
    /\ brightness_direction = 0
    /\ sim1_on = TRUE
    /\ sim2_on = TRUE
    /\ was_brightness = setBrightness(BRIGHTNESS)
    /\ step_direction = 0

\* one iteration of loop() as far as the side buttons, the enable flags and
\* the brightness go; lt and lb are the levels the two digitalRead()s return
LoopControls(lt, lb) ==
    LET st == tick(side_top_button, lt)
        sb == tick(side_bottom_button, lb)
        dir == HeldDirection(brightness_direction, brightness, st, sb)
        step == StepBrightness(dir, brightness)
    IN  /\ side_top_button' = st
        /\ side_bottom_button' = sb
        /\ sim1_on' = HeldEnable(AfterClicks(sim1_on, st, sb), brightness, st, sb)
        /\ sim2_on' = HeldEnable(AfterClicks(sim2_on, st, sb), brightness, st, sb)
        /\ brightness' = step.brightness
        /\ brightness_direction' = step.direction
        /\ was_brightness' = brightness
        /\ step_direction' = dir

(***************************************************************************)
(* loop(): palette selection (lines 337-340)                               *)
(***************************************************************************)
\* the palette table: the four colours each CRGBPalette16 is built from
pallets ==
    [i \in 0..(NUM_PALLETS - 1) |->
        CASE i = 0 -> <<"Black", "Red", "Orange", "White">>
          [] i = 1 -> <<"Black", "Yellow", "Orange", "White">>
          [] i = 2 -> <<"Black", "Blue", "Aqua", "White">>
          [] i = 3 -> <<"Black", "Green", "Aqua", "White">>]

\* mutant of NextPallet: the modulus is off by one
NextPallet_short(sel) == (sel + 1) % (NUM_PALLETS - 1)

\* line 338: the index after a click
NextPallet(sel) == (sel + 1) % NUM_PALLETS

\* selected_pallet = false; setup(): gPal = pallets[0]
PaletteStart ==
    /\ top_button = top_button_0
    /\ selected_pallet = 0
    /\ gPal = pallets[0]
    /\ n_clicks = 0
    /\ was_pallet = 0

\* one iteration of loop() as far as the select button and the palette go
LoopPalette(level) ==
    LET tb == tick(top_button, level)
        sel == IF clicked(tb) THEN NextPallet(selected_pallet) ELSE selected_pallet
    IN  /\ clicked(tb) => n_clicks < MaxClicks
        /\ top_button' = tb
        /\ selected_pallet' = sel
        /\ gPal' = IF clicked(tb) THEN pallets[sel] ELSE gPal
        /\ n_clicks' = IF clicked(tb) THEN n_clicks + 1 ELSE n_clicks
        /\ was_pallet' = selected_pallet

(***************************************************************************)
(* class FireSim (lines 91-140)                                            *)
(***************************************************************************)
\* size and indices of the simulated heat array
SimCells == SimLeds * HEAT_CELL_MULTIPLIER

Cells == 0..(SimCells - 1)

\* assignment of an int to a byte
byte(v) == v % 256

\* mutant of qsub8: plain 8-bit subtraction, which wraps below 0
qsub8_wrap(i, j) == (i - j) % 256

\* FastLED qsub8: subtract, saturating at 0
qsub8(i, j) == IF i - j < 0 THEN 0 ELSE i - j

\* FastLED qadd8: add, saturating at 255
qadd8(i, j) == IF i + j > 255 THEN 255 ELSE i + j

\* mutant of Cool: the draw is added to the cell
Cool_warming(h, draw) == [i \in Cells |-> byte(qadd8(h[i], draw[i]))]

\* step 1 (lines 122-124) with draw[i] the value random8(0, COOL_LIMIT) returns
Cool(h, draw) == [i \in Cells |-> byte(qsub8(h[i], draw[i]))]

\* step 2 (lines 127-129) from cell k down to cell 2, in place: acc.heat is
\* the array, acc.wide the int values computed before they are stored
RECURSIVE DiffuseDown(_, _)
DiffuseDown(acc, k) ==
    IF k < 2 THEN acc
    ELSE LET v == (acc.heat[k - 1] + acc.heat[k - 2] + acc.heat[k - 2]) \div 3
         IN  DiffuseDown([heat |-> [acc.heat EXCEPT ![k] = byte(v)],
                          wide |-> [acc.wide EXCEPT ![k] = v]], k - 1)

\* the same loop running from cell k up to the last cell
RECURSIVE DiffuseUp(_, _)
DiffuseUp(acc, k) ==
    IF k > SimCells - 1 THEN acc
    ELSE LET v == (acc.heat[k - 1] + acc.heat[k - 2] + acc.heat[k - 2]) \div 3
         IN  DiffuseUp([heat |-> [acc.heat EXCEPT ![k] = byte(v)],
                        wide |-> [acc.wide EXCEPT ![k] = v]], k + 1)

\* mutant of Diffuse: the pass runs bottom-up
Diffuse_bottomup(h) == DiffuseUp([heat |-> h, wide |-> h], 2)

\* step 2 as the sketch runs it: k = HEAT_CELLS - 1 down to 2
Diffuse(h) == DiffuseDown([heat |-> h, wide |-> h], SimCells - 1)

\* mutant of Sparking: the early return of a disabled simulation is missing
Sparking_always(on, chance) == chance < SPARKING

\* lines 131-136: step 3 runs when fire_on is true and random8() < SPARKING
Sparking(on, chance) == on = TRUE /\ chance < SPARKING

\* mutant of Spark: the spark lands one cell higher
Spark_shifted(h, y, r) == [h EXCEPT ![y + 1] = byte(qadd8(h[y + 1], r))]

\* lines 137-138: the spark lands in cell y with amount r
Spark(h, y, r) == [h EXCEPT ![y] = byte(qadd8(h[y], r))]

NoSpark == [lit |-> FALSE, y |-> 0, r |-> 0]

\* FireSim::FireSim()
FireStart ==
    /\ heat = [i \in Cells |-> 0]
    /\ fire_on = TRUE
    /\ n_updates = 0
    /\ u_tock = FALSE
    /\ u_pre = heat
    /\ u_cool = [i \in Cells |-> 0]
    /\ u_cooled = heat
    /\ u_wide = heat
    /\ u_diffused = heat
    /\ u_spark = NoSpark

\* FireSim::update() with the values the random8 calls return
update(draw, chance, y, r) ==
    LET cooled == Cool(heat, draw)
        pass == Diffuse(cooled)
        lit == Sparking(fire_on, chance)
    IN  /\ heat' = IF lit THEN Spark(pass.heat, y, r) ELSE pass.heat
        /\ u_tock' = ~u_tock
        /\ u_pre' = heat
        /\ u_cool' = draw
        /\ u_cooled' = cooled
        /\ u_wide' = pass.wide
        /\ u_diffused' = pass.heat
        /\ u_spark' = IF lit THEN [lit |-> TRUE, y |-> y, r |-> r] ELSE NoSpark
        /\ UNCHANGED fire_on

\* FireSim::on()
on == fire_on' = TRUE /\ UNCHANGED <<heat, u_tock, u_pre, u_cool, u_cooled,
                                      u_wide, u_diffused, u_spark>>

\* FireSim::off()
off == fire_on' = FALSE /\ UNCHANGED <<heat, u_tock, u_pre, u_cool, u_cooled,
                                        u_wide, u_diffused, u_spark>>

\* the random draws tried: the ends of each range, one value for the even
\* cells and one for the odd cells of a cooling pass
CoolDraws == {0, 1, COOL_LIMIT - 1}

CoolPattern(ce, co) == [i \in Cells |-> IF i % 2 = 0 THEN ce ELSE co]

ChanceDraws == {SPARKING - 1, SPARKING}

SparkDraws == {SPARK_MIN, SPARK_LIMIT - 1}

\* update() with any draws; random8(3) and random8(160, 255) are called
\* only when a spark is lit
AnyUpdate ==
    \E ce \in CoolDraws : \E co \in CoolDraws : \E chance \in ChanceDraws :
        IF Sparking(fire_on, chance)
        THEN \E y \in 0..(SPARK_CELLS - 1) : \E r \in SparkDraws :
                update(CoolPattern(ce, co), chance, y, r)
        ELSE update(CoolPattern(ce, co), chance, 0, 0)

(***************************************************************************)
(* setup() and loop(): the wake-up deadline (lines 281, 366-369)           *)
(***************************************************************************)
\* unsigned long arithmetic
ulong(v) == v % ULONG

\* line 368: max(nextwake - millis(), 0) on unsigned long operands; the 0
\* is converted to unsigned long, so the difference is never below it
ToSleep(wake, t) ==
    LET diff == ulong(wake - t)
    IN  IF diff > 0 THEN diff ELSE 0

\* mutant of NextWake: the deadline is taken from the clock after the sleep
NextWake_fromnow(wake, t) == ulong(t + FramePeriod)

\* line 369: the next deadline (t is millis() after the sleep, not used)
NextWake(wake, t) == ulong(wake + FramePeriod)

\* setup() ending at time t: line 281
SchedStartAt(t) ==
    /\ now = t
    /\ nextwake = ulong(t + FramePeriod)
    /\ s_pc = "work"
    /\ n_iter = 0
    /\ wake0 = nextwake
    /\ s_tosleep = 0
    /\ s_late = FALSE

\* lines 292-364: the work of one iteration takes d ms
SchedWork(d) ==
    /\ s_pc = "work"
    /\ now' = ulong(now + d)
    /\ s_pc' = "sleep"
    /\ s_late' = (s_late \/ now + d > nextwake)
    /\ UNCHANGED <<nextwake, n_iter, wake0, s_tosleep>>

\* lines 367-369: FastLED.delay() returns lag ms late, then the deadline moves
SchedSleep(lag) ==
    LET d == ToSleep(nextwake, now)
        woke == ulong(now + d + lag)
    IN  /\ s_pc = "sleep"
        /\ now' = woke
        /\ nextwake' = NextWake(nextwake, woke)
        /\ s_pc' = "work"
        /\ n_iter' = n_iter + 1
        /\ s_tosleep' = d
        /\ UNCHANGED <<wake0, s_late>>

(***************************************************************************)
(* FireSim::copyToLEDs (lines 142-170) and the FastLED colour functions    *)
(***************************************************************************)
\* the FastLED colour codes the palette table uses, as <<red, green, blue>>
ColorCode(name) ==
    CASE name = "Black" -> <<0, 0, 0>>
      [] name = "Red" -> <<255, 0, 0>>
      [] name = "Orange" -> <<255, 165, 0>>
      [] name = "Yellow" -> <<255, 255, 0>>
      [] name = "Green" -> <<0, 128, 0>>
      [] name = "Aqua" -> <<0, 255, 255>>
      [] name = "Blue" -> <<0, 0, 255>>
      [] name = "White" -> <<255, 255, 255>>

Channels == 1..3

\* C integer division, which truncates towards 0
TruncDiv(a, b) == IF a >= 0 THEN a \div b ELSE -((-a) \div b)

\* FastLED fill_gradient_RGB, one channel: entry i of the ramp that runs
\* from value c1 at entry s to value c2 at entry e (8.8 fixed point)
GradientAt(c1, c2, s, e, i) ==
    LET delta == 2 * TruncDiv((c2 - c1) * 128, IF e = s THEN 1 ELSE e - s)
    IN  ((c1 * 256 + (i - s) * delta) % 65536) \div 256

\* CRGBPalette16(c1, c2, c3, c4): 16 entries, three ramps meeting at
\* entries 16/3 and 32/3
Palette16(p) ==
    LET third == 16 \div 3
        twothirds == (16 * 2) \div 3
        c(n) == ColorCode(p[n])
    IN  [i \in 0..15 |->
            [ch \in Channels |->
                IF i >= twothirds
                THEN GradientAt(c(3)[ch], c(4)[ch], twothirds, 15, i)
                ELSE IF i >= third
                THEN GradientAt(c(2)[ch], c(3)[ch], third, twothirds, i)
                ELSE GradientAt(c(1)[ch], c(2)[ch], 0, third, i)]]

\* FastLED scale8: i scaled by (scale + 1) / 256
scale8(i, scale) == (i * (1 + scale)) \div 256

\* line 152: the palette index of a heat value, 0..240
ColorIndex(h) == scale8(h, 240)

\* FastLED ColorFromPalette with the default brightness and LINEARBLEND:
\* entry index / 16, blended with the next entry by index % 16
ColorFromPalette(pal, index) ==
    LET hi4 == index \div 16
        lo4 == index % 16
        e1 == pal[hi4]
        e2 == pal[(hi4 + 1) % 16]
        f2 == lo4 * 16
        f1 == 255 - f2
    IN  IF lo4 = 0 THEN e1
        ELSE [ch \in Channels |-> byte(scale8(e1[ch], f1) + scale8(e2[ch], f2))]

\* CRGB::operator+= adds channel by channel with qadd8
AddColor(sum, color) == [ch \in Channels |-> qadd8(sum[ch], color[ch])]

\* lines 146-155: the sum over the first m heat cells of LED j
RECURSIVE SumCells(_, _, _, _)
SumCells(h, pal, j, m) ==
    IF m = 0 THEN <<0, 0, 0>>
    ELSE AddColor(SumCells(h, pal, j, m - 1),
                  ColorFromPalette(pal,
                      ColorIndex(h[j * HEAT_CELL_MULTIPLIER + (m - 1)])))

\* lines 164-167: sum[c] / (float)(HEAT_CELL_MULTIPLIER) stored in a byte
\* channel; the conversion drops the fraction
Averaged(sum) == [ch \in Channels |-> byte(sum[ch] \div HEAT_CELL_MULTIPLIER)]

\* mutant of PixelNumber: the reversed index does not move with j
PixelNumber_stuck(rev, j) == IF rev THEN SimLeds - 1 ELSE j

\* lines 156-161: the pixel LED j is written to
PixelNumber(rev, j) == IF rev THEN (SimLeds - 1) - j ELSE j

\* lines 145-169: the loop over the LEDs from j on; acc.leds is the buffer,
\* acc.written the set of pixels written so far
RECURSIVE RenderFrom(_, _, _, _, _)
RenderFrom(acc, h, pal, rev, j) ==
    IF j >= SimLeds THEN acc
    ELSE LET px == PixelNumber(rev, j)
             color == Averaged(SumCells(h, pal, j, HEAT_CELL_MULTIPLIER))
         IN  RenderFrom([leds |-> [acc.leds EXCEPT ![px] = color],
                         written |-> acc.written \cup {px}],
                        h, pal, rev, j + 1)

Pixels == 0..(SimLeds - 1)

\* CRGB leds1[NUM_LEDS], zero-initialised; bool gReverseDirection = false
RenderStart ==
    /\ gReverseDirection = FALSE
    /\ leds = [p \in Pixels |-> <<0, 0, 0>>]
    /\ led_written = {}

\* FireSim::copyToLEDs(thisleds)
copyToLEDs ==
    LET out == RenderFrom([leds |-> leds, written |-> {}], heat,
                          Palette16(gPal), gReverseDirection, 0)
    IN  /\ leds' = out.leds
        /\ led_written' = out.written
        /\ UNCHANGED gReverseDirection

(***************************************************************************)
(* Specifications                                                          *)
(***************************************************************************)
\* SpecButton: each of the three Button objects, ticked with any pin levels
InitButton ==
    /\ \E b \in {top_button_0, side_top_button_0, side_bottom_button_0} :
            ButtonStart(b)
    /\ LoopStart /\ PaletteStart /\ FireStart /\ SchedStartAt(SETUP_DELAY)
    /\ RenderStart

PinDown == ButtonTick(LOW) /\ UNCHANGED <<loopVars, paletteVars, fireVars, schedVars, renderVars>>

PinUp == ButtonTick(HIGH) /\ UNCHANGED <<loopVars, paletteVars, fireVars, schedVars, renderVars>>

NextButton == PinDown \/ PinUp

SpecButton == InitButton /\ [][NextButton]_vars

\* the state after setup(), which the other specifications start from
Start ==
    /\ ButtonStart(top_button_0) /\ LoopStart /\ PaletteStart /\ FireStart
    /\ SchedStartAt(SETUP_DELAY) /\ RenderStart

\* SpecLoop: loop() iterations with any levels on the two side buttons
LoopIteration ==
    /\ \E lt \in {LOW, HIGH} : \E lb \in {LOW, HIGH} : LoopControls(lt, lb)
    /\ UNCHANGED <<buttonVars, paletteVars, fireVars, schedVars, renderVars>>

NextLoop == LoopIteration

SpecLoop == Start /\ [][NextLoop]_vars

\* SpecPalette: loop() iterations with any level on the select button
PaletteIteration ==
    /\ \E level \in {LOW, HIGH} : LoopPalette(level)
    /\ UNCHANGED <<buttonVars, loopVars, fireVars, schedVars, renderVars>>

NextPalette == PaletteIteration

SpecPalette == Start /\ [][NextPalette]_vars

\* SpecFire: one FireSim, updated with any draws, switched on and off
FireUpdate ==
    /\ n_updates < MaxUpdates
    /\ AnyUpdate
    /\ n_updates' = n_updates + 1
    /\ UNCHANGED <<buttonVars, loopVars, paletteVars, schedVars, renderVars>>

FireOn == on /\ UNCHANGED <<n_updates, buttonVars, loopVars, paletteVars, schedVars, renderVars>>

FireOff == off /\ UNCHANGED <<n_updates, buttonVars, loopVars, paletteVars, schedVars, renderVars>>

NextFire == FireUpdate \/ FireOn \/ FireOff

SpecFire == Start /\ [][NextFire]_vars

\* the array after n update() calls that light no spark and draw the
\* largest cooling amount for every cell
RECURSIVE QuietUpdates(_, _)
QuietUpdates(h, n) ==
    IF n = 0 THEN h
    ELSE QuietUpdates(
            Diffuse(Cool(h, CoolPattern(COOL_LIMIT - 1, COOL_LIMIT - 1))).heat,
            n - 1)

\* SpecDie: a FireSim that was sparked once in cell y (by the smallest
\* amount a spark can have), went through Warmup
\* update() calls without a spark and was then switched off; from there
\* update() is called for ever (loop() never returns)
InitDie ==
    /\ ButtonStart(top_button_0) /\ LoopStart /\ PaletteStart
    /\ SchedStartAt(SETUP_DELAY) /\ RenderStart
    /\ \E y \in 0..(SPARK_CELLS - 1) :
            heat = QuietUpdates(Spark([i \in Cells |-> 0], y, SPARK_MIN), Warmup)
    /\ fire_on = FALSE
    /\ n_updates = Warmup + 1
    /\ u_tock = FALSE
    /\ u_pre = heat
    /\ u_cool = [i \in Cells |-> 0]
    /\ u_cooled = heat
    /\ u_wide = heat
    /\ u_diffused = heat
    /\ u_spark = NoSpark

DieUpdate ==
    /\ AnyUpdate
    /\ UNCHANGED <<n_updates, buttonVars, loopVars, paletteVars, schedVars, renderVars>>

NextDie == DieUpdate

SpecDie == InitDie /\ [][NextDie]_vars /\ WF_vars(DieUpdate)

\* SpecSched: setup() ending at any of a few times, then loop() iterations
\* whose work takes any time up to MaxWork
InitSched ==
    /\ ButtonStart(top_button_0) /\ LoopStart /\ PaletteStart /\ FireStart
    /\ RenderStart
    /\ \E lag \in 0..MaxLag : SchedStartAt(SETUP_DELAY + lag)

Work ==
    /\ \E d \in 0..MaxWork : SchedWork(d)
    /\ UNCHANGED <<buttonVars, loopVars, paletteVars, fireVars, renderVars>>

Sleep ==
    /\ n_iter < MaxIter
    /\ \E lag \in 0..MaxLag : SchedSleep(lag)
    /\ UNCHANGED <<buttonVars, loopVars, paletteVars, fireVars, renderVars>>

NextSched == Work \/ Sleep

SpecSched == InitSched /\ [][NextSched]_vars

\* the heat values the arrays of SpecRender are made of
HeatLevels == {0, 90, 170, 255}

\* SpecRender: copyToLEDs() applied once to a heat array, under each palette
\* of the table (selected by that many clicks) and each setting of the
\* compile-time switch gReverseDirection
InitRender ==
    /\ ButtonStart(top_button_0) /\ LoopStart /\ SchedStartAt(SETUP_DELAY)
    /\ top_button = top_button_0
    /\ selected_pallet \in 0..(NUM_PALLETS - 1)
    /\ gPal = pallets[selected_pallet]
    /\ n_clicks = selected_pallet
    /\ was_pallet = selected_pallet
    /\ heat \in [Cells -> HeatLevels]
    /\ fire_on = TRUE
    /\ n_updates = 0
    /\ u_tock = FALSE
    /\ u_pre = heat
    /\ u_cool = [i \in Cells |-> 0]
    /\ u_cooled = heat
    /\ u_wide = heat
    /\ u_diffused = heat
    /\ u_spark = NoSpark
    /\ gReverseDirection \in BOOLEAN
    /\ leds = [p \in Pixels |-> <<0, 0, 0>>]
    /\ led_written = {}

RenderFrame ==
    /\ copyToLEDs
    /\ UNCHANGED <<buttonVars, loopVars, paletteVars, fireVars, schedVars>>

NextRender == RenderFrame

SpecRender == InitRender /\ [][NextRender]_vars

(***************************************************************************)
(* Button claims                                                           *)
(***************************************************************************)
\* the last tick completed the press countdown: isPressed() went false -> true
RisingEdge == b_ticked /\ ~isPressed(b_prev) /\ isPressed(button)

\* the last tick read "down" in Released-stable and started the countdown
PressStarted == b_ticked /\ b_level = LOW /\ ReleasedStable(b_prev)

C3_PressedAfterFramesOn ==
    b_run = button.m_frames_on => (isPressed(button) /\ b_runclicks = 1)

\* the last tick continued (b_run) or ended (b_ended) a run of "down" readings
\* from Released-stable shorter than framesToConfirmPress
ShortRunGoing == b_run >= 1 /\ b_run < button.m_frames_on

ShortRunEnded == b_ended >= 1 /\ b_ended < button.m_frames_on

C5_BrightnessSaturates ==
    /\ brightness \in 0..255
    /\ isPressed(side_top_button) => brightness = Min(255, was_brightness + 1)
    /\ (isPressed(side_bottom_button) /\ ~isPressed(side_top_button)
            /\ was_brightness = 0) => brightness = 0

\* C5 witness: the increase button is held with the brightness already 255
C5_Witness ==
    isPressed(side_top_button) /\ was_brightness = 255 /\ brightness = 255

\* C5, the lower end reached: decrease held alone at brightness 0
C5_ZeroHeld ==
    isPressed(side_bottom_button) /\ ~isPressed(side_top_button)
        /\ was_brightness = 0 /\ brightness = 0

\* C6: the palette index is always in [0,3] and the active palette is the
\* table entry at that index; every iteration in which the select button's
\* clicked() is true advances the index by 1 modulo 4 (no other iteration
\* changes it), so after 4, 8, ... clicks the first palette is active again.
C6_PaletteCycles ==
    /\ selected_pallet \in 0..(NUM_PALLETS - 1)
    /\ gPal = pallets[selected_pallet]
    /\ selected_pallet = IF clicked(top_button)
                         THEN (was_pallet + 1) % NUM_PALLETS
                         ELSE was_pallet
    /\ selected_pallet = n_clicks % NUM_PALLETS
    /\ (n_clicks % NUM_PALLETS = 0) => gPal = pallets[0]

\* C6 witness: the fourth click has just brought the first palette back
C6_Witness ==
    /\ clicked(top_button)
    /\ n_clicks = NUM_PALLETS
    /\ was_pallet = NUM_PALLETS - 1
    /\ gPal = pallets[0]

(***************************************************************************)
(* FireSim claims                                                          *)
(***************************************************************************)
RECURSIVE MaxOver(_, _)
MaxOver(h, k) == IF k = 0 THEN h[0] ELSE Max(h[k], MaxOver(h, k - 1))

\* the largest value of a heat array
MaxHeat(h) == MaxOver(h, SimCells - 1)

AllCold(h) == \A i \in Cells : h[i] = 0

\* C7: every heat cell is always in [0,255]; step 1 of the last update()
\* left max(0, h - r) in every cell, step 2 computed values that fit in 8
\* bits, and a spark left min(255, h + r) in its cell.
C7_HeatSaturates ==
    /\ \A i \in Cells : heat[i] \in 0..255
    /\ \A i \in Cells : u_cooled[i] = Max(0, u_pre[i] - u_cool[i])
    /\ \A k \in Cells : u_wide[k] \in 0..255 /\ u_diffused[k] = u_wide[k]
    /\ u_spark.lit =>
          heat[u_spark.y] = Min(255, u_diffused[u_spark.y] + u_spark.r)

\* C7 witness: the last update() saturated both ways: a cell was cooled by
\* more than it held, and a spark overshot 255
C7_Witness ==
    /\ \E i \in Cells : u_pre[i] < u_cool[i] /\ u_cooled[i] = 0
    /\ u_spark.lit
    /\ u_diffused[u_spark.y] + u_spark.r > 255
    /\ heat[u_spark.y] = 255

\* the double-buffered diffusion pass: every cell from 2 up is computed from
\* the array h as it was before the pass
Reference(h) ==
    [k \in Cells |-> IF k >= 2 THEN (h[k - 1] + 2 * h[k - 2]) \div 3 ELSE h[k]]

\* C8: the in-place diffusion pass of the last update() produced the array
\* the double-buffered reference computes from the array before the pass;
\* cells 0 and 1 are unchanged by the pass.
C8_DiffusionAsReference ==
    /\ u_diffused = Reference(u_cooled)
    /\ u_diffused[0] = u_cooled[0]
    /\ u_diffused[1] = u_cooled[1]

\* C8 witness: a pass over an array in which cells 0, 1 and 2 are hot, so
\* that the value written to cell 2 differs from the one cell 3 must read
C8_Witness ==
    /\ u_cooled[0] > 0 /\ u_cooled[1] > 0 /\ u_cooled[2] > 0
    /\ u_diffused[2] # u_cooled[2]
    /\ u_diffused[3] = (u_cooled[2] + 2 * u_cooled[1]) \div 3
    /\ u_diffused[3] # (u_diffused[2] + 2 * u_cooled[1]) \div 3

\* C9 as stated: while the simulation stays disabled, all heat cells are 0
\* after finitely many update() calls, whatever the cooling draws.
C9_DiesOut == <>AllCold(heat)

\* C9 amended: while disabled no spark is injected and the largest heat
\* value never rises; it falls by at least 1 in every update() whose cooling
\* draws are all nonzero (so 255 such calls leave every cell 0), and a cold
\* array stays cold.  Draws of 0 leave a hot array hot.
C9_CoolsWhenDrawsNonzero ==
    /\ ~u_spark.lit
    /\ MaxHeat(heat) <= MaxHeat(u_pre)
    /\ ((\A i \in Cells : u_cool[i] >= 1) /\ ~AllCold(u_pre))
          => MaxHeat(heat) < MaxHeat(u_pre)
    /\ AllCold(u_pre) => AllCold(heat)

\* C9 witness: a disabled update() with all draws 0 left a hot array as it was
C9_Witness ==
    /\ fire_on = FALSE /\ u_tock
    /\ \A i \in Cells : u_cool[i] = 0
    /\ ~AllCold(heat) /\ heat = u_pre

(***************************************************************************)
(* Scheduling claims                                                       *)
(***************************************************************************)
\* C10: after n_iter iterations the deadline is the one setup() computed
\* plus n_iter frame periods (in unsigned long arithmetic), however long
\* the work of any iteration took.
C10_DeadlineNoDrift == nextwake = ulong(wake0 + n_iter * FramePeriod)

\* C10 witness: several iterations done, one of them overran its deadline
C10_Witness == n_iter >= 3 /\ s_late /\ s_pc = "work"

(***************************************************************************)
(* Rendering claims                                                        *)
(***************************************************************************)
Rendered == led_written # {}

\* C11: after copyToLEDs() of an array whose heat cells are all 0, in the
\* normal and in the reversed direction, every one of the pixels has been
\* written and holds the active palette's colour at index 0.
C11_ColdFrameIsIndexZero ==
    (Rendered /\ AllCold(heat)) =>
        \A p \in Pixels :
            /\ p \in led_written
            /\ leds[p] = ColorFromPalette(Palette16(gPal), 0)

\* C11 witness: a cold array was rendered in the reversed direction
C11_Witness ==
    /\ Rendered /\ AllCold(heat) /\ gReverseDirection
    /\ led_written = Pixels

\* the colour heat cell k is mapped to (lines 152-153)
CellColor(k) == ColorFromPalette(Palette16(gPal), ColorIndex(heat[k]))

\* C19: every channel of every rendered LED j is the floor of the average of
\* the two palette colours of its heat cells, also when the two channel
\* values sum to more than 255.
C19_TrueAverage ==
    Rendered =>
        \A j \in Pixels : \A ch \in Channels :
            leds[PixelNumber(gReverseDirection, j)][ch]
                = (CellColor(HEAT_CELL_MULTIPLIER * j)[ch]
                   + CellColor(HEAT_CELL_MULTIPLIER * j + 1)[ch])
                  \div HEAT_CELL_MULTIPLIER

(***************************************************************************)
(* Button claims: the debouncer as a four-state machine                    *)
(***************************************************************************)
\* the transitions of the debouncer's table: from state a on reading level
\* to state b
TableStep(a, level, b) ==
    IF ReleasedStable(a)
    THEN IF level = LOW
         THEN PressPending(b) /\ b.m_frames = a.m_frames_on
         ELSE ReleasedStable(b)
    ELSE IF PressPending(a)
    THEN IF level = LOW
         THEN IF a.m_frames = 0 THEN PressedStable(b)
              ELSE PressPending(b) /\ b.m_frames = a.m_frames - 1
         ELSE ReleasedStable(b)
    ELSE IF PressedStable(a)
    THEN IF level = LOW
         THEN PressedStable(b)
         ELSE ReleasePending(b) /\ b.m_frames = a.m_frames_off
    ELSE IF level = LOW
         THEN PressedStable(b)
         ELSE IF a.m_frames = 0 THEN ReleasedStable(b)
              ELSE ReleasePending(b) /\ b.m_frames = a.m_frames - 1

\* C12: with (m_down, m_frames) read as the four states, every tick() makes
\* the one transition the table allows for the level read; an opposite
\* reading aborts a countdown to the stable state without changing m_down;
\* m_down changes only on the tick that finds its countdown at 0; m_frames
\* stays within -1 .. max(m_frames_on, m_frames_off), and the parameters of
\* the object never change.
C12_TickFollowsTable ==
    /\ button.m_frames >= -1
    /\ button.m_frames <= Max(button.m_frames_on, button.m_frames_off)
    /\ b_ticked =>
        /\ TableStep(b_prev, b_level, button)
        /\ button.m_pin = b_prev.m_pin
        /\ button.m_frames_on = b_prev.m_frames_on
        /\ button.m_frames_off = b_prev.m_frames_off
        /\ (PressPending(b_prev) /\ b_level = HIGH) => ReleasedStable(button)
        /\ (ReleasePending(b_prev) /\ b_level = LOW) => PressedStable(button)
        /\ (button.m_down # b_prev.m_down) =>
              /\ b_prev.m_frames = 0
              /\ button.m_frames = -1
              /\ b_level = (IF button.m_down THEN LOW ELSE HIGH)

\* C12 witness: a single "up" reading aborted a press countdown that had
\* already counted down
C12_Witness ==
    /\ b_ticked /\ PressPending(b_prev) /\ b_prev.m_frames < b_prev.m_frames_on
    /\ b_level = HIGH /\ ReleasedStable(button)

\* C13: isPressed() goes from false to true only on a "down" tick that ends
\* a run of at least m_frames_on consecutive "down" ticks, and from true to
\* false only on an "up" tick that ends a run of at least m_frames_off
\* consecutive "up" ticks.
C13_ChangeNeedsFullRun ==
    b_ticked =>
        /\ (~isPressed(b_prev) /\ isPressed(button)) =>
              (b_level = LOW /\ b_run >= button.m_frames_on)
        /\ (isPressed(b_prev) /\ ~isPressed(button)) =>
              (b_level = HIGH /\ b_uprun >= button.m_frames_off)

\* C13 witness: a release was confirmed by its run of "up" ticks, on a
\* button whose press takes the long hold
C13_Witness ==
    /\ b_ticked /\ isPressed(b_prev) /\ ~isPressed(button)
    /\ b_uprun >= button.m_frames_off
    /\ button.m_frames_on > button.m_frames_off

\* C14: at the end of every iteration in which the increase or the decrease
\* button is confirmed pressed, both simulations are enabled (so they are
\* when update() advances them), whatever the brightness.
C14_HoldEnables ==
    (isPressed(side_top_button) \/ isPressed(side_bottom_button))
        => (sim1_on /\ sim2_on)

\* C15: in an iteration in which the increase button's clicked() is true and
\* the decrease button's is not, both simulations are enabled when update()
\* advances them; in one in which the decrease button's clicked() is true
\* and the increase button is not held, both are disabled (and update()
\* lights no spark, whatever it draws); the two enable flags are always
\* equal at the end of an iteration.
C15_ClicksSwitchBoth ==
    /\ (clicked(side_top_button) /\ ~clicked(side_bottom_button))
          => (sim1_on /\ sim2_on)
    /\ (clicked(side_bottom_button) /\ ~isPressed(side_top_button))
          => /\ ~sim1_on /\ ~sim2_on
             /\ \A chance \in 0..255 :
                   ~Sparking(sim1_on, chance) /\ ~Sparking(sim2_on, chance)
    /\ sim1_on = sim2_on

\* C15 witness: both buttons clicked in one iteration and the fires are off
C15_Witness ==
    /\ clicked(side_top_button) /\ clicked(side_bottom_button)
    /\ ~sim1_on /\ ~sim2_on

\* C16: one iteration changes the brightness by exactly +1 if the increase
\* button is held and the brightness is below 255, by exactly -1 if the
\* decrease button is held, the increase button is not and the brightness is
\* above 0, and not at all otherwise; with decrease held at brightness 0 the
\* direction the step reads is 0; a step that ends at 0 or 255 leaves
\* brightness_direction 0.
C16_StepByHeldButton ==
    /\ brightness =
          IF isPressed(side_top_button) /\ was_brightness < 255
          THEN was_brightness + 1
          ELSE IF isPressed(side_bottom_button) /\ ~isPressed(side_top_button)
                  /\ was_brightness > 0
          THEN was_brightness - 1
          ELSE was_brightness
    /\ (isPressed(side_bottom_button) /\ ~isPressed(side_top_button)
          /\ was_brightness = 0) => step_direction = 0
    /\ (step_direction # 0 /\ brightness \in {0, 255})
          => brightness_direction = 0

\* C16 witness: the decrease button held took the brightness from 1 to 0
\* and the direction was reset
C16_Witness ==
    /\ isPressed(side_bottom_button) /\ ~isPressed(side_top_button)
    /\ was_brightness = 1 /\ brightness = 0
    /\ step_direction = -1 /\ brightness_direction = 0

\* C17: while the simulation is disabled, update() never raises a heat cell:
\* after the call every cell holds at most what it held before.
C17_NoCellRises == \A i \in Cells : heat[i] <= u_pre[i]

\* C17 amended: while the simulation is disabled, update() lights no spark
\* and never raises cell 0 or cell 1; a cell k >= 2 ends with at most the
\* larger of what cells k-1 and k-2 held before the call, so it may end
\* above its own old value, but no cell ends above the old maximum.
C17_NoCellAboveNeighbours ==
    /\ ~u_spark.lit
    /\ heat[0] <= u_pre[0]
    /\ heat[1] <= u_pre[1]
    /\ \A k \in Cells :
          k >= 2 => heat[k] <= Max(u_pre[k - 1], u_pre[k - 2])

\* C17 witness: an update() of the disabled simulation raised a cell
C17_Witness ==
    /\ fire_on = FALSE /\ u_tock
    /\ \E k \in Cells : k >= 2 /\ heat[k] > u_pre[k]

\* what C18 says of the state an update() leaves
SparkOnDiffused ==
    /\ u_spark.lit =>
          /\ u_spark.y \in 0..2
          /\ u_spark.r \in 160..254
          /\ heat[u_spark.y] = Min(255, u_diffused[u_spark.y] + u_spark.r)
          /\ \A i \in Cells : i # u_spark.y => heat[i] = u_diffused[i]
    /\ ~u_spark.lit => heat = u_diffused
    /\ \A i \in Cells : i >= 3 => heat[i] = u_diffused[i]

\* C18: update() lights a spark only when the simulation is enabled, and
\* applies it to the array step 1 and step 2 left: the spark changes one
\* cell, of index 0, 1 or 2, to min(255, old + r) with r in [160,255), and
\* every cell of index 3 or more ends the call with its diffusion result.
C18_SparkLastAndLow ==
    /\ []SparkOnDiffused
    /\ [][(u_tock' # u_tock /\ u_spark'.lit) => fire_on = TRUE]_vars

\* C18 witness: a spark landed in cell 2 on top of diffused heat, next to a
\* warm cell 3
C18_Witness ==
    /\ u_spark.lit /\ u_spark.y = 2
    /\ u_diffused[2] > 0 /\ u_diffused[3] > 0
    /\ heat[2] = Min(255, u_diffused[2] + u_spark.r)
    /\ heat[3] = u_diffused[3]

\* C20: the time every iteration asks FastLED.delay() to sleep is
\* max(0, deadline - now): it is never longer than one frame period, and it
\* is 0, not a wrapped-around huge time, when the work ended past the
\* deadline.
C20_SleepWithinPeriod == s_tosleep \in 0..FramePeriod

=============================================================================
